---- MODULE Spec2Model ----
(***************************************************************************)
(* sentry_tunnel: the request pipeline of src/server.rs (tunnel_handler,   *)
(* post_tunnel_handler, check_content_length) and src/envelope.rs          *)
(* (SentryEnvelope::try_new_from_body, dsn_host_is_valid, forward).        *)
(*                                                                         *)
(* Bytes are integers 0..255, strings and buffers are sequences of bytes.  *)
(* An Option<T> is a record [some, v]; a Result is a record [ok, err, ..]. *)
(***************************************************************************)
EXTENDS Integers, Sequences, FiniteSets, TLC

\* ------------------------------------------------------------------ bounds

\* Longest header value / body enumerated byte by byte.
MaxHdrLen == 3
MaxBodyLen == 4
\* Most lines of a generated envelope.
MaxLines == 60

\* ------------------------------------------------------- program constants

\* server.rs:29  pub const MAX_CONTENT_SIZE: u64 = 10_000_000;
MAX_CONTENT_SIZE == 10000000
\* envelope.rs:127  std::cmp::min(body.lines().count(), 50)
LINE_CAP == 50

\* ----------------------------------------------------------------- helpers

NoneV == [some |-> FALSE, v |-> <<>>]
Some(x) == [some |-> TRUE, v |-> x]

Min(a, b) == IF a < b THEN a ELSE b

Range(s) == {s[i] : i \in 1..Len(s)}

SeqsUpTo(S, n) == UNION {[1..k -> S] : k \in 0..n}

\* ------------------------------------------------ u64::from_str (decimal)

IsDigit(b) == b >= 48 /\ b <= 57

RECURSIVE StripZeros(_)
StripZeros(d) ==
    IF Len(d) > 1 /\ d[1] = 0 THEN StripZeros(Tail(d)) ELSE d

\* a > b for two digit sequences without leading zeros
RECURSIVE LexGt(_, _)
LexGt(a, b) ==
    IF a = <<>> THEN FALSE
    ELSE IF a[1] # b[1] THEN a[1] > b[1]
    ELSE LexGt(Tail(a), Tail(b))

GtDigits(a, b) ==
    \/ Len(a) > Len(b)
    \/ Len(a) = Len(b) /\ LexGt(a, b)

RECURSIVE NatDigits(_)
NatDigits(n) ==
    IF n < 10 THEN <<n>> ELSE Append(NatDigits(n \div 10), n % 10)

\* u64::MAX = 18446744073709551615
U64MaxDigits == <<1,8,4,4,6,7,4,4,0,7,3,7,0,9,5,5,1,6,1,5>>

\* u64::from_str: an optional leading '+', then one or more decimal digits,
\* the value not above u64::MAX.  The value is kept as its digits (u64 does
\* not fit the checker's integers).
ParseU64(s) ==
    LET body == IF Len(s) > 0 /\ s[1] = 43 THEN Tail(s) ELSE s
        digs == [i \in 1..Len(body) |-> body[i] - 48]
    IN  IF body = <<>> \/ \E i \in 1..Len(body) : ~IsDigit(body[i])
        THEN [ok |-> FALSE, digits |-> <<>>]
        ELSE IF GtDigits(StripZeros(digs), U64MaxDigits)
        THEN [ok |-> FALSE, digits |-> <<>>]
        ELSE [ok |-> TRUE, digits |-> StripZeros(digs)]

\* HeaderValue::to_str: Ok only for visible ASCII (and tab)
HeaderToStrOk(v) == \A i \in 1..Len(v) : (v[i] >= 32 /\ v[i] < 127) \/ v[i] = 9

\* buggy variant: `>=` instead of `>`
check_content_length_ge(headers) ==
    IF headers.content_length.some
    THEN LET v == headers.content_length.v
             n == ParseU64(v)
         IN  IF ~HeaderToStrOk(v) THEN "CouldNotParseContentLength"
             ELSE IF ~n.ok THEN "CouldNotParseContentLength"
             ELSE IF ~GtDigits(NatDigits(MAX_CONTENT_SIZE), n.digits)
                  THEN "ContentIsTooBig"
                  ELSE "Ok"
    ELSE "MissingContentLength"

\* server.rs:78  fn check_content_length(headers) -> Result<(), AError>
check_content_length(headers) ==
    IF headers.content_length.some
    THEN LET v == headers.content_length.v
             n == ParseU64(v)
         IN  IF ~HeaderToStrOk(v) THEN "CouldNotParseContentLength"
             ELSE IF ~n.ok THEN "CouldNotParseContentLength"
             ELSE IF GtDigits(n.digits, NatDigits(MAX_CONTENT_SIZE))
                  THEN "ContentIsTooBig"
                  ELSE "Ok"
    ELSE "MissingContentLength"

\* ------------------------------------------- String::from_utf8 validation

IsCont(b) == b >= 128 /\ b <= 191

\* core::str UTF8_CHAR_WIDTH
Utf8CharWidth(b) ==
    IF b < 128 THEN 1
    ELSE IF b >= 194 /\ b <= 223 THEN 2
    ELSE IF b >= 224 /\ b <= 239 THEN 3
    ELSE IF b >= 240 /\ b <= 244 THEN 4
    ELSE 0

\* buggy variant: any continuation byte accepted as the second byte
SecondByteOk_lax(first, b) == IsCont(b)

\* the second byte of a multi-byte sequence, per leading byte
SecondByteOk(first, b) ==
    IF first = 224 THEN b >= 160 /\ b <= 191
    ELSE IF first = 237 THEN b >= 128 /\ b <= 159
    ELSE IF first = 240 THEN b >= 144 /\ b <= 191
    ELSE IF first = 244 THEN b >= 128 /\ b <= 143
    ELSE IsCont(b)

\* a well-formed sequence starts at v[i] and lies inside v
SeqOkAt(v, i) ==
    /\ Utf8CharWidth(v[i]) > 0
    /\ i + Utf8CharWidth(v[i]) - 1 <= Len(v)
    /\ (Utf8CharWidth(v[i]) >= 2 => SecondByteOk(v[i], v[i + 1]))
    /\ (Utf8CharWidth(v[i]) >= 3 => IsCont(v[i + 2]))
    /\ (Utf8CharWidth(v[i]) = 4 => IsCont(v[i + 3]))

\* v[i] starts a well-formed sequence or lies inside the one that starts
\* at most three bytes before it
ByteOk(v, i) ==
    \/ SeqOkAt(v, i)
    \/ \E j \in 1..(i - 1) :
         i - j <= 3 /\ Utf8CharWidth(v[j]) > i - j /\ SeqOkAt(v, j)

\* server.rs:116-119  String::from_utf8(v): Utf8Error::valid_up_to, Len(v)
\* when v is valid.  The validation walks v one sequence at a time and stops
\* at the first byte that neither starts nor continues a well-formed one.
Utf8ValidUpTo(v) ==
    CHOOSE p \in 0..Len(v) :
        /\ p < Len(v) => ~ByteOk(v, p + 1)
        /\ \A i \in 1..p : ByteOk(v, i)

FromUtf8Ok(v) == \A i \in 1..Len(v) : ByteOk(v, i)

\* ------------------------------------------------------------ str::lines
\* lines end at LF (10); a final empty piece is no line.  A CR before the
\* LF stays in the line here: the JSON parser skips it as white space.

\* the bytes at which the lines of s start
LineStarts(s) == {a \in 1..Len(s) : a = 1 \/ s[a - 1] = 10}

\* body.lines().count()
LinesCount(s) == Cardinality(LineStarts(s))

\* the index of the LF that ends the line starting at pos, Len(s) + 1 when
\* the last line has none
LineEnd(s, pos) ==
    CHOOSE e \in pos..(Len(s) + 1) :
        /\ e <= Len(s) => s[e] = 10
        /\ \A k \in pos..(e - 1) : s[k] # 10

\* the line that starts at byte a
LineAt(s, a) == SubSeq(s, a, LineEnd(s, a) - 1)

\* the number, from 1, of the line that starts at a, S the line starts
LineIndex(S, a) == Cardinality({b \in S : b <= a})

\* ------------------------------------------------- serde_json::from_str
\* The JSON grammar restricted to what the generated bodies can spell:
\* objects, strings without escapes, non-negative integers, whitespace.

JsonWs == {32, 9, 13, 10}

JsonFail == [ok |-> FALSE, next |-> 0,
             val |-> [kind |-> "none", str |-> <<>>, members |-> <<>>]]

JsonOk(n, k, s, m) == [ok |-> TRUE, next |-> n,
                       val |-> [kind |-> k, str |-> s, members |-> m]]

RECURSIVE SkipWs(_, _)
SkipWs(s, i) ==
    IF i <= Len(s) /\ s[i] \in JsonWs THEN SkipWs(s, i + 1) ELSE i

\* index of the closing quote of the string whose content starts at j, or 0
RECURSIVE StrEnd(_, _)
StrEnd(s, j) ==
    IF j > Len(s) THEN 0
    ELSE IF s[j] = 34 THEN j
    ELSE IF s[j] = 92 \/ s[j] < 32 THEN 0
    ELSE StrEnd(s, j + 1)

RECURSIVE DigitsEnd(_, _)
DigitsEnd(s, j) ==
    IF j <= Len(s) /\ IsDigit(s[j]) THEN DigitsEnd(s, j + 1) ELSE j

ParseJsonString(s, i) ==
    LET e == StrEnd(s, i + 1)
    IN  IF e = 0 THEN JsonFail
        ELSE JsonOk(e + 1, "string", SubSeq(s, i + 1, e - 1), <<>>)

ParseJsonNumber(s, i) ==
    LET e == DigitsEnd(s, i)
    IN  IF s[i] = 48 /\ e > i + 1 THEN JsonFail
        ELSE JsonOk(e, "number", SubSeq(s, i, e - 1), <<>>)

RECURSIVE ParseJsonValue(_, _)
RECURSIVE ParseJsonMembers(_, _, _)

ParseJsonValue(s, i0) ==
    LET i == SkipWs(s, i0)
    IN  IF i > Len(s) THEN JsonFail
        ELSE IF s[i] = 34 THEN ParseJsonString(s, i)
        ELSE IF IsDigit(s[i]) THEN ParseJsonNumber(s, i)
        ELSE IF s[i] = 123
        THEN LET j == SkipWs(s, i + 1)
             IN  IF j <= Len(s) /\ s[j] = 125
                 THEN JsonOk(j + 1, "object", <<>>, <<>>)
                 ELSE ParseJsonMembers(s, j, <<>>)
        ELSE JsonFail

\* the members of an object from the key at i on, acc the members so far
ParseJsonMembers(s, i, acc) ==
    IF i > Len(s) \/ s[i] # 34 THEN JsonFail
    ELSE LET k == ParseJsonString(s, i)
         IN  IF ~k.ok THEN JsonFail
             ELSE LET c == SkipWs(s, k.next)
                  IN  IF c > Len(s) \/ s[c] # 58 THEN JsonFail
                      ELSE LET v == ParseJsonValue(s, c + 1)
                           IN  IF ~v.ok THEN JsonFail
                               ELSE LET d == SkipWs(s, v.next)
                                        acc2 == Append(acc, [key |-> k.val.str, val |-> v.val])
                                    IN  IF d > Len(s) THEN JsonFail
                                        ELSE IF s[d] = 125
                                        THEN JsonOk(d + 1, "object", <<>>, acc2)
                                        ELSE IF s[d] = 44
                                        THEN ParseJsonMembers(s, SkipWs(s, d + 1), acc2)
                                        ELSE JsonFail

\* envelope.rs:129  serde_json::from_str(line): one value, then only whitespace
serde_json_from_str(s) ==
    LET r == ParseJsonValue(s, 1)
    IN  IF r.ok /\ SkipWs(s, r.next) > Len(s) THEN r ELSE JsonFail

\* "dsn"
DSN_KEY == <<100, 115, 110>>

\* envelope.rs:130  header.get("dsn"): None unless an object with the key
\* (a repeated key keeps its last value)
ValueGet(val, key) ==
    IF val.kind # "object" THEN NoneV
    ELSE LET idx == {i \in 1..Len(val.members) : val.members[i].key = key}
         IN  IF idx = {} THEN NoneV
             ELSE Some(val.members[CHOOSE i \in idx : \A j \in idx : j <= i].val)

\* ---------------------------------------------------------- Dsn::from_str
\* scheme://public_key@host/project_id, restricted to the https scheme, no
\* secret, port or path prefix.

RECURSIVE IndexOf(_, _, _)
IndexOf(s, b, from) ==
    IF from > Len(s) THEN 0
    ELSE IF s[from] = b THEN from
    ELSE IndexOf(s, b, from + 1)

\* the value of the first n digits of d
RECURSIVE DigitsValue(_, _)
DigitsValue(d, n) ==
    IF n = 0 THEN 0 ELSE 10 * DigitsValue(d, n - 1) + (d[n] - 48)

DigitsToNat(d) == DigitsValue(d, Len(d))

\* "https://"
HttpsPrefix == <<104, 116, 116, 112, 115, 58, 47, 47>>

NoDsn == [host |-> <<>>, public_key |-> <<>>, project_id |-> 0]

DsnFromStr(s) ==
    LET at == IndexOf(s, 64, 9)
        sl == IndexOf(s, 47, 9)
        key == SubSeq(s, 9, at - 1)
        host == SubSeq(s, at + 1, sl - 1)
        proj == SubSeq(s, sl + 1, Len(s))
    IN  IF \/ Len(s) < 8
           \/ SubSeq(s, 1, 8) # HttpsPrefix
           \/ at = 0 \/ sl = 0 \/ sl < at
           \/ key = <<>> \/ host = <<>> \/ proj = <<>>
           \/ Len(proj) > 9
           \/ \E i \in 1..Len(proj) : ~IsDigit(proj[i])
        THEN [ok |-> FALSE, dsn |-> NoDsn]
        ELSE [ok |-> TRUE,
              dsn |-> [host |-> host, public_key |-> key,
                       project_id |-> DigitsToNat(proj)]]

\* ---------------------------------- SentryEnvelope::try_new_from_body

NoEnvelope == [dsn |-> NoDsn, raw_body |-> <<>>, is_safe |-> FALSE,
               x_forwarded_for |-> <<>>]

ScanResult(e, d, k) == [err |-> e, dsn |-> d, examined |-> k]

\* the loop goes on to the next line
Continue(i) == ScanResult("Continue", NoneV, i)

\* envelope.rs:132  dsn = Some(Dsn::from_str(dsn_str)?); break;
ScanDescriptor(d, i) ==
    IF d.ok THEN ScanResult("", Some(d.dsn), i)
    ELSE ScanResult("ParseDsnError", NoneV, i)

\* envelope.rs:130-137  the "dsn" member dv of the header of line i
ScanDsnValue(dv, i) ==
    IF dv.some
    THEN IF dv.v.kind = "string"
         THEN ScanDescriptor(DsnFromStr(dv.v.str), i)
         ELSE ScanResult("InvalidDsnValue", NoneV, i)
    ELSE Continue(i)

\* envelope.rs:129  the parsed header of line i
ScanHeader(header, i) ==
    IF ~header.ok THEN ScanResult("InvalidHeaderJson", NoneV, i)
    ELSE ScanDsnValue(ValueGet(header.val, DSN_KEY), i)

\* envelope.rs:128-137  the body of the loop for line i
ScanLine(line, i) ==
    CHOOSE r \in {ScanHeader(h, i) : h \in {serde_json_from_str(line)}} : TRUE

\* buggy variant: without the break the last descriptor or error wins
ExitLine_last(D) == CHOOSE a \in D : \A b \in D : b <= a

\* the loop leaves at the first line that returns or breaks
ExitLine(D) == CHOOSE a \in D : \A b \in D : a <= b

\* envelope.rs:127-138  the loop over the first n lines of body, S the line
\* starts: it leaves at the first line whose iteration returns an error or
\* breaks with a descriptor; without one it runs its n iterations, dsn
\* stays None, and lines.next() fails the iteration that finds no line.
\* examined counts the lines handed to serde_json::from_str.
ScanLines(body, S, n) ==
    CHOOSE r \in
      UNION { IF D = {}
              THEN { IF n > Cardinality(S)
                     THEN ScanResult("InvalidNumberOfLines", NoneV, Cardinality(S))
                     ELSE ScanResult("", NoneV, n) }
              ELSE { ScanLine(LineAt(body, a), LineIndex(S, a)) : a \in {ExitLine(D)} }
              : D \in { {a \in S : /\ LineIndex(S, a) <= n
                                   /\ ScanLine(LineAt(body, a), 0).err # "Continue"} } }
      : TRUE

ScanLoop(body, n) ==
    CHOOSE r \in {ScanLines(body, S, n) : S \in {LineStarts(body)}} : TRUE

\* buggy variant: no cap on the number of lines
LoopBound_nocap(count) == count

\* buggy variant: always LINE_CAP iterations
LoopBound_fixed(count) == LINE_CAP

\* envelope.rs:127  0..std::cmp::min(body.lines().count(), 50)
LoopBound(count) == Min(count, LINE_CAP)

\* buggy variant: the envelope is always flagged safe
EnvelopeResult_safe(r, full_body, is_safe, x_forwarded_for) ==
    IF r.err # ""
    THEN [ok |-> FALSE, err |-> r.err, env |-> NoEnvelope, examined |-> r.examined]
    ELSE IF r.dsn.some
    THEN [ok |-> TRUE, err |-> "",
          env |-> [dsn |-> r.dsn.v, raw_body |-> full_body,
                   is_safe |-> TRUE, x_forwarded_for |-> x_forwarded_for],
          examined |-> r.examined]
    ELSE [ok |-> FALSE, err |-> "MissingDsnKeyInHeader", env |-> NoEnvelope,
          examined |-> r.examined]

\* envelope.rs:128-149  r the outcome of the loop: a `?` inside the loop
\* returns its error, otherwise the envelope or MissingDsnKeyInHeader
EnvelopeResult(r, full_body, is_safe, x_forwarded_for) ==
    IF r.err # ""
    THEN [ok |-> FALSE, err |-> r.err, env |-> NoEnvelope, examined |-> r.examined]
    ELSE IF r.dsn.some
    THEN [ok |-> TRUE, err |-> "",
          env |-> [dsn |-> r.dsn.v, raw_body |-> full_body,
                   is_safe |-> is_safe, x_forwarded_for |-> x_forwarded_for],
          examined |-> r.examined]
    ELSE [ok |-> FALSE, err |-> "MissingDsnKeyInHeader", env |-> NoEnvelope,
          examined |-> r.examined]

\* envelope.rs:118  SentryEnvelope::try_new_from_body
try_new_from_body(body, full_body, is_safe, x_forwarded_for) ==
    CHOOSE x \in
        { EnvelopeResult(r, full_body, is_safe, x_forwarded_for) :
            r \in {ScanLoop(body, LoopBound(LinesCount(body)))} } : TRUE

\* ------------------------------------------------------------ AccessPolicy

\* config.rs (not in src/): Config::project_id_is_allowed, a membership
\* test against the configured project ids
project_id_is_allowed(cfg, id) == id \in cfg.project_ids

\* buggy variant: any non-empty host list allows every host
dsn_host_is_valid_any(env, hosts) == Len(hosts) > 0

\* envelope.rs:74  SentryEnvelope::dsn_host_is_valid
dsn_host_is_valid(env, hosts) ==
    \E i \in 1..Len(hosts) : hosts[i] = env.dsn.host

\* buggy variant: the host check comes first
PolicyDecision_hostfirst(env, cfg) ==
    IF dsn_host_is_valid(env, cfg.remote_hosts)
    THEN IF project_id_is_allowed(cfg, env.dsn.project_id)
         THEN "Forward"
         ELSE "InvalidProjectId"
    ELSE "InvalidHost"

\* server.rs:135-164  the two nested checks of tunnel_handler
PolicyDecision(env, cfg) ==
    IF project_id_is_allowed(cfg, env.dsn.project_id)
    THEN IF dsn_host_is_valid(env, cfg.remote_hosts)
         THEN "Forward"
         ELSE "InvalidHost"
    ELSE "InvalidProjectId"

\* ----------------------------------------------------------------- Forwarder

\* buggy variant: the valid-text prefix is sent
ForwardBody_prefix(env) == SubSeq(env.raw_body, 1, Utf8ValidUpTo(env.raw_body))

\* envelope.rs:89-95  the body of the outbound request;
\* String::from_utf8(b).unwrap().into_bytes() gives b back
ForwardBody(env) ==
    IF ~env.is_safe THEN env.raw_body ELSE env.raw_body

\* envelope.rs:87  HeaderValue from the x_forwarded_for string
HeaderValueOk(v) == \A i \in 1..Len(v) : (v[i] >= 32 /\ v[i] # 127) \/ v[i] = 9

\* envelope.rs:101-107  the body representation of the debug record
LogBodyRepr(env, body) ==
    IF ~env.is_safe THEN "ByteCount"
    ELSE IF body = <<>> THEN "DebugRawBody"
    ELSE "ByteCountSafe"

\* envelope.rs:83-95  the outbound request
BuildRequest(env) ==
    [method |-> "POST",
     host |-> env.dsn.host,
     project_id |-> env.dsn.project_id,
     sentry_key |-> env.dsn.public_key,
     content_type |-> "application/x-sentry-envelope",
     x_forwarded_for |-> env.x_forwarded_for,
     body |-> ForwardBody(env)]

\* ------------------------------------------------------------- X-Forwarded-For

\* ASCII white space, as str::trim strips it
WhiteSpace == {9, 10, 11, 12, 13, 32}

RECURSIVE TrimStart(_)
TrimStart(s) ==
    IF s # <<>> /\ s[1] \in WhiteSpace THEN TrimStart(Tail(s)) ELSE s

RECURSIVE TrimEnd(_)
TrimEnd(s) ==
    IF s # <<>> /\ s[Len(s)] \in WhiteSpace THEN TrimEnd(SubSeq(s, 1, Len(s) - 1)) ELSE s

\* s.split(',').next()
FirstField(s) ==
    LET c == IndexOf(s, 44, 1)
    IN  IF c = 0 THEN s ELSE SubSeq(s, 1, c - 1)

\* server.rs:105-114
ResolveXff(hdrs, cfg, addr) ==
    IF cfg.trust_x_forwarded_for /\ hdrs.x_forwarded_for.some
       /\ HeaderToStrOk(hdrs.x_forwarded_for.v)
    THEN TrimEnd(TrimStart(FirstField(hdrs.x_forwarded_for.v)))
    ELSE addr

\* ----------------------------------------------------------------- responses

\* buggy variant: handler errors answered with 500
ErrorResponse_500(e) == [status |-> 500, mime |-> "text/plain", body |-> e]

\* server.rs:170-176  post_tunnel_handler, the Err arm
ErrorResponse(e) == [status |-> 400, mime |-> "text/plain", body |-> e]

\* server.rs:148-152  the Err arm of forward
ForwardFailedResponse(e) == [status |-> 500, mime |-> "text/plain", body |-> e]

\* server.rs:155  create_empty_response(state, StatusCode::OK)
EmptyOkResponse == [status |-> 200, mime |-> "", body |-> ""]

\* server.rs:121  let is_safe = max_length == original_body.len();
IsSafe(ml, len) == ml = len

\* ------------------------------------------------------------------- inputs

\* the socket peer address, "1.1"
ClientAddr == <<49, 46, 49>>

\* `{}`
EmptyObjLine == <<123, 125>>

DsnLine(d) == <<123, 34, 100, 115, 110, 34, 58, 34>> \o d \o <<34, 125>>

\* https://k@h/42
Dsn1 == HttpsPrefix \o <<107, 64, 104, 47, 52, 50>>
\* https://k@g/7
Dsn2 == HttpsPrefix \o <<107, 64, 103, 47, 55>>

HostH == <<104>>
HostG == <<103>>

\* `{}`, two valid descriptors, {"dsn":1}, {"dsn":"x"}, `x`, the empty line
LineVocab ==
    { EmptyObjLine, DsnLine(Dsn1), DsnLine(Dsn2),
      <<123, 34, 100, 115, 110, 34, 58, 49, 125>>,
      DsnLine(<<120>>), <<120>>, <<>> }

\* what follows the last generated line: nothing, LF, an invalid byte
Tails == { <<>>, <<10>>, <<255>>, <<10, 255>> }

\* leading `{}` lines: none, one, and enough to put the two chosen lines
\* before, at and after the cap, and at the end of the longest envelope
FillCounts == {0, 1, LINE_CAP - 2, LINE_CAP - 1, LINE_CAP, MaxLines - 2}

\* n lines `{}`, each with its LF
Fill(n) ==
    [i \in 1..(3 * n) |-> IF i % 3 = 1 THEN 123 ELSE IF i % 3 = 2 THEN 125 ELSE 10]

\* n `{}` lines, then lines a and b, then the tail
Envelope(n, a, b, t) == Fill(n) \o a \o <<10>> \o b \o t

EnvelopeBodies ==
    { Envelope(n, a, b, t) : n \in FillCounts, a \in LineVocab, b \in LineVocab,
                             t \in Tails }

\* ASCII, continuation bytes, 2-, 3- and 4-byte leading bytes
Utf8Alphabet == {123, 128, 160, 195, 224, 237, 240}
ByteBodies == SeqsUpTo(Utf8Alphabet, MaxBodyLen)

\* '+', '0', '1', 'x' and a non-ASCII byte
HdrAlphabet == {43, 48, 49, 120, 200}
HdrValues ==
    SeqsUpTo(HdrAlphabet, MaxHdrLen) \cup
    { <<49,48,48,48,48,48,48,48>>,          \* 10000000
      <<49,48,48,48,48,48,48,49>>,          \* 10000001
      <<57,57,57,57,57,57,57>>,             \* 9999999
      <<48,49,48,48,48,48,48,48,48>>,       \* 010000000
      <<43,49,48,48,48,48,48,48,49>>,       \* +10000001
      <<45,49>>,                            \* -1
      <<32,49>>,                            \* " 1"
      [i \in 1..20 |-> U64MaxDigits[i] + 48],
      [i \in 1..20 |-> IF i = 20 THEN 54 ELSE U64MaxDigits[i] + 48] }

\* the Content-Length a well-behaved client sends with body b
LenHeader(b) == Some([i \in 1..Len(NatDigits(Len(b))) |-> NatDigits(Len(b))[i] + 48])

\* "a", " a , b"
XffValues == { NoneV, Some(<<97>>), Some(<<32, 97, 32, 44, 32, 98>>) }

DefaultConfig ==
    [project_ids |-> {42}, remote_hosts |-> <<HostH>>,
     trust_x_forwarded_for |-> FALSE]

Configs ==
    { [project_ids |-> p, remote_hosts |-> h, trust_x_forwarded_for |-> t] :
        p \in SUBSET {42, 7},
        h \in {<<>>, <<HostH>>, <<HostG>>, <<HostG, HostH>>},
        t \in BOOLEAN }

\* -------------------------------------------------------------------- state

VARIABLES
    pc,               \* the handler's position
    headers,          \* the request's Content-Length and X-Forwarded-For
    reqBody,          \* the bytes the client sends as the body
    config,           \* TunnelConfig.inner, read-only
    full_body,        \* server.rs:99
    original_body,    \* server.rs:100
    x_forwarded_for,  \* server.rs:105
    max_length,       \* server.rs:116
    is_safe,          \* server.rs:121
    partial_body,     \* server.rs:122
    body_content,     \* server.rs:123
    envelope,         \* server.rs:128  sentry_instance, an Option
    err,              \* the Err tunnel_handler returns, "" while none
    request,          \* envelope.rs:84  the built outbound request, an Option
    logged,           \* envelope.rs:96  the debug record's body representation
    outbound,         \* the requests handed to send_async, in order
    fwd_result,       \* what forward() returned: NotCalled, Ok, Err
    responses,        \* the responses given to the client, in order
    stages,           \* the stages run so far, in order
    examined,         \* lines the scanner handed to the JSON parser
    body_reads,       \* attempts to read the inbound body
    panicked          \* an unwrap() failed

vars == <<pc, headers, reqBody, config, full_body, original_body,
          x_forwarded_for, max_length, is_safe, partial_body, body_content,
          envelope, err, request, logged, outbound, fwd_result, responses,
          stages, examined, body_reads, panicked>>

\* the request: the gate's inputs enumerated with an empty body, or a body
\* (byte strings, envelopes) under the default configuration, or the two
\* one-line envelopes under every configuration
Inputs ==
    \/ /\ headers \in { [content_length |-> c, x_forwarded_for |-> NoneV] :
                          c \in {NoneV} \cup {Some(v) : v \in HdrValues} }
       /\ reqBody = <<>>
       /\ config = DefaultConfig
    \/ /\ reqBody \in ByteBodies \cup EnvelopeBodies
       /\ headers = [content_length |-> LenHeader(reqBody), x_forwarded_for |-> NoneV]
       /\ config = DefaultConfig
    \/ /\ reqBody \in { DsnLine(Dsn1), DsnLine(Dsn2) \o <<10>> }
       /\ \E x \in XffValues :
            headers = [content_length |-> LenHeader(reqBody), x_forwarded_for |-> x]
       /\ config \in Configs

Init ==
    /\ Inputs
    /\ pc = "gate"
    /\ full_body = <<>>
    /\ original_body = <<>>
    /\ x_forwarded_for = <<>>
    /\ max_length = 0
    /\ is_safe = FALSE
    /\ partial_body = <<>>
    /\ body_content = <<>>
    /\ envelope = [some |-> FALSE, v |-> NoEnvelope]
    /\ err = ""
    /\ request = NoneV
    /\ logged = ""
    /\ outbound = <<>>
    /\ fwd_result = "NotCalled"
    /\ responses = <<>>
    /\ stages = <<>>
    /\ examined = 0
    /\ body_reads = 0
    /\ panicked = FALSE

inputVars == <<headers, reqBody, config>>
textVars == <<x_forwarded_for, max_length, is_safe, partial_body, body_content>>
forwardVars == <<request, logged, outbound, fwd_result>>

\* server.rs:96-97  check_content_length(&headers)?
Gate ==
    /\ pc = "gate"
    /\ \E r \in {check_content_length(headers)} :
           IF r = "Ok"
           THEN pc' = "read" /\ err' = err
           ELSE pc' = "respond" /\ err' = r
    /\ stages' = Append(stages, "gate")
    /\ UNCHANGED <<inputVars, full_body, original_body, textVars, envelope,
                   forwardVars, responses, examined, body_reads, panicked>>

\* server.rs:99-100  body::to_bytes(..).await? returns the declared number
\* of bytes
ReadBodyOk ==
    /\ pc = "read"
    /\ ParseU64(headers.content_length.v).digits = NatDigits(Len(reqBody))
    /\ full_body' = reqBody
    /\ original_body' = reqBody
    /\ body_reads' = body_reads + 1
    /\ pc' = "text"
    /\ stages' = Append(stages, "read")
    /\ UNCHANGED <<inputVars, textVars, envelope, err, forwardVars, responses,
                   examined, panicked>>

\* server.rs:99  body::to_bytes(..).await? fails (the client went away, the
\* body is shorter than declared)
ReadBodyErr ==
    /\ pc = "read"
    /\ body_reads' = body_reads + 1
    /\ err' = "BodyReadError"
    /\ pc' = "respond"
    /\ stages' = Append(stages, "read")
    /\ UNCHANGED <<inputVars, full_body, original_body, textVars, envelope,
                   forwardVars, responses, examined, panicked>>

\* server.rs:103-127  X-Forwarded-For, then the valid-text prefix
SafeTextView ==
    /\ pc = "text"
    /\ \E ml \in {Utf8ValidUpTo(full_body)} :
       \E safe \in {IsSafe(ml, Len(original_body))} :
       \E part \in {SubSeq(full_body, 1, ml)} :
       \E chosen \in {IF ~safe THEN part ELSE original_body} :
           /\ x_forwarded_for' = ResolveXff(headers, config, ClientAddr)
           /\ max_length' = ml
           /\ is_safe' = safe
           /\ partial_body' = part
           /\ full_body' = SubSeq(full_body, ml + 1, Len(full_body))
           /\ IF FromUtf8Ok(chosen)
              THEN body_content' = chosen /\ pc' = "scan" /\ err' = err
              ELSE body_content' = body_content /\ pc' = "respond"
                   /\ err' = "FromUtf8Error"
    /\ stages' = Append(stages, "text")
    /\ UNCHANGED <<inputVars, original_body, envelope, forwardVars, responses,
                   examined, body_reads, panicked>>

\* server.rs:128-133  SentryEnvelope::try_new_from_body(..)?
Scan ==
    /\ pc = "scan"
    /\ \E r \in {try_new_from_body(body_content, original_body, is_safe,
                                   x_forwarded_for)} :
           /\ examined' = r.examined
           /\ IF r.ok
              THEN envelope' = Some(r.env) /\ pc' = "policy" /\ err' = err
              ELSE envelope' = envelope /\ pc' = "respond" /\ err' = r.err
    /\ stages' = Append(stages, "scan")
    /\ UNCHANGED <<inputVars, full_body, original_body, textVars, forwardVars,
                   responses, body_reads, panicked>>

\* server.rs:135-164  project check, then host check
Policy ==
    /\ pc = "policy"
    /\ \E d \in {PolicyDecision(envelope.v, config)} :
           IF d = "Forward"
           THEN pc' = "forward" /\ err' = err
           ELSE pc' = "respond" /\ err' = d
    /\ stages' = Append(stages, "policy")
    /\ UNCHANGED <<inputVars, full_body, original_body, textVars, envelope,
                   forwardVars, responses, examined, body_reads, panicked>>

\* envelope.rs:83-108  forward(): build the request, write the debug record
ForwardBuild ==
    /\ pc = "forward"
    /\ stages' = Append(stages, "forward")
    /\ IF envelope.v.is_safe /\ ~FromUtf8Ok(envelope.v.raw_body)
       THEN \* String::from_utf8(..).unwrap() panics
            /\ panicked' = TRUE
            /\ pc' = "panic"
            /\ UNCHANGED <<forwardVars, responses>>
       ELSE IF ~HeaderValueOk(envelope.v.x_forwarded_for)
       THEN \* .body(..)? fails; server.rs:142-153 answers 500
            /\ fwd_result' = "Err"
            /\ responses' = Append(responses, ForwardFailedResponse("HttpError"))
            /\ pc' = "done"
            /\ UNCHANGED <<request, logged, outbound, panicked>>
       ELSE /\ request' = Some(BuildRequest(envelope.v))
            /\ logged' = LogBodyRepr(envelope.v, ForwardBody(envelope.v))
            /\ pc' = "send"
            /\ UNCHANGED <<outbound, fwd_result, responses, panicked>>
    /\ UNCHANGED <<inputVars, full_body, original_body, textVars, envelope, err,
                   examined, body_reads>>

\* envelope.rs:109-110, server.rs:154-157  the transport accepted the request
SendOk ==
    /\ pc = "send"
    /\ outbound' = Append(outbound, request.v)
    /\ fwd_result' = "Ok"
    /\ responses' = Append(responses, EmptyOkResponse)
    /\ pc' = "done"
    /\ stages' = Append(stages, "send")
    /\ UNCHANGED <<inputVars, full_body, original_body, textVars, envelope, err,
                   request, logged, examined, body_reads, panicked>>

\* envelope.rs:111, server.rs:142-153  the transport failed
SendErr ==
    /\ pc = "send"
    /\ outbound' = Append(outbound, request.v)
    /\ fwd_result' = "Err"
    /\ responses' = Append(responses, ForwardFailedResponse("TransportError"))
    /\ pc' = "done"
    /\ stages' = Append(stages, "send")
    /\ UNCHANGED <<inputVars, full_body, original_body, textVars, envelope, err,
                   request, logged, examined, body_reads, panicked>>

\* server.rs:167-177  post_tunnel_handler turns the Err into a response
RespondError ==
    /\ pc = "respond"
    /\ responses' = Append(responses, ErrorResponse(err))
    /\ pc' = "done"
    /\ stages' = Append(stages, "respond")
    /\ UNCHANGED <<inputVars, full_body, original_body, textVars, envelope, err,
                   forwardVars, examined, body_reads, panicked>>

Next ==
    \/ Gate
    \/ ReadBodyOk
    \/ ReadBodyErr
    \/ SafeTextView
    \/ Scan
    \/ Policy
    \/ ForwardBuild
    \/ SendOk
    \/ SendErr
    \/ RespondError

Spec == Init /\ [][Next]_vars

\* ------------------------------------------------------------------ claims

Ran(st) == \E i \in 1..Len(stages) : stages[i] = st

JustRan(st) == stages # <<>> /\ stages[Len(stages)] = st

Pipeline == <<"gate", "read", "text", "scan", "policy", "forward", "send">>

\* the stage an error comes from
FailedStage(e) ==
    IF e \in {"MissingContentLength", "CouldNotParseContentLength", "ContentIsTooBig"}
    THEN 1
    ELSE IF e = "BodyReadError" THEN 2
    ELSE IF e = "FromUtf8Error" THEN 3
    ELSE IF e \in {"InvalidProjectId", "InvalidHost"} THEN 5
    ELSE 4

\* a Content-Length value, read as text: an optional '+', then digits only
LengthDigits(v) == IF Len(v) > 0 /\ v[1] = 43 THEN Tail(v) ELSE v

IsUintText(v) ==
    /\ LengthDigits(v) # <<>>
    /\ \A i \in 1..Len(LengthDigits(v)) : IsDigit(LengthDigits(v)[i])

\* the digits of v without the leading zeros, as numbers
Significant(v) ==
    StripZeros([i \in 1..Len(LengthDigits(v)) |-> LengthDigits(v)[i] - 48])

\* the header is present, an unsigned integer, and at most 10,000,000
LengthAcceptable(h) ==
    /\ h.some
    /\ IsUintText(h.v)
    /\ \/ Len(Significant(h.v)) < 8
       \/ Significant(h.v) = <<1, 0, 0, 0, 0, 0, 0, 0>>

ExpectedGateError(h) ==
    IF ~h.some THEN "MissingContentLength"
    ELSE IF ~IsUintText(h.v) \/ GtDigits(Significant(h.v), U64MaxDigits)
    THEN "CouldNotParseContentLength"
    ELSE "ContentIsTooBig"

\* UTF-8 by its definition: v is the concatenation of the encodings of
\* Unicode scalar values.  A character starts at every byte that is not of
\* the form 10xxxxxx.
IsContPattern(b) == b >= 128 /\ b < 192

ChunkEnd(v, i) ==
    CHOOSE e \in (i + 1)..(Len(v) + 1) :
        /\ e <= Len(v) => ~IsContPattern(v[e])
        /\ \A k \in (i + 1)..(e - 1) : IsContPattern(v[k])

DecodeCP(c) ==
    IF Len(c) = 1 THEN c[1]
    ELSE IF Len(c) = 2 THEN (c[1] - 192) * 64 + (c[2] - 128)
    ELSE IF Len(c) = 3 THEN (c[1] - 224) * 4096 + (c[2] - 128) * 64 + (c[3] - 128)
    ELSE (c[1] - 240) * 262144 + (c[2] - 128) * 4096 + (c[3] - 128) * 64 + (c[4] - 128)

EncodeCP(cp) ==
    IF cp < 128 THEN <<cp>>
    ELSE IF cp < 2048 THEN <<192 + (cp \div 64), 128 + (cp % 64)>>
    ELSE IF cp < 65536
    THEN <<224 + (cp \div 4096), 128 + ((cp \div 64) % 64), 128 + (cp % 64)>>
    ELSE <<240 + (cp \div 262144), 128 + ((cp \div 4096) % 64),
           128 + ((cp \div 64) % 64), 128 + (cp % 64)>>

IsScalar(cp) == cp >= 0 /\ cp <= 1114111 /\ ~(cp >= 55296 /\ cp <= 57343)

IsCharEncoding(c) ==
    /\ Len(c) <= 4
    /\ IsScalar(DecodeCP(c))
    /\ EncodeCP(DecodeCP(c)) = c

IsEncodedText(v) ==
    /\ v # <<>> => ~IsContPattern(v[1])
    /\ \A i \in 1..Len(v) :
         ~IsContPattern(v[i]) => IsCharEncoding(SubSeq(v, i, ChunkEnd(v, i) - 1))

\* what a line holds: no JSON, JSON without a "dsn" key, a "dsn" that is no
\* string, a "dsn" string that is no descriptor, a valid descriptor
DsnValueKind(dv) ==
    IF ~dv.some THEN "nokey"
    ELSE IF dv.v.kind # "string" THEN "nonstring"
    ELSE IF DsnFromStr(dv.v.str).ok THEN "valid"
    ELSE "baddsn"

HeaderKind(h) ==
    IF ~h.ok THEN "badjson" ELSE DsnValueKind(ValueGet(h.val, DSN_KEY))

LineKind(line) ==
    CHOOSE k \in {HeaderKind(h) : h \in {serde_json_from_str(line)}} : TRUE

\* the kind of every line of s, by the byte the line starts at
LineKinds(s) == [a \in LineStarts(s) |-> LineKind(LineAt(s, a))]

DsnOfLine(line) ==
    DsnFromStr(ValueGet(serde_json_from_str(line).val, DSN_KEY).v.str).dsn

\* the line starting at a is among the first LINE_CAP lines, holds a valid
\* descriptor, and every line before it is of a kind in allowed
FirstValid(kinds, a, allowed) ==
    /\ kinds[a] = "valid"
    /\ LineIndex(DOMAIN kinds, a) <= LINE_CAP
    /\ \A b \in DOMAIN kinds : b < a => kinds[b] \in allowed

\* the scanner returned the descriptor of the line starting at a and has
\* examined no line after it
ReturnsLine(s, S, a) ==
    /\ envelope.some
    /\ err = ""
    /\ envelope.v.dsn = DsnOfLine(LineAt(s, a))
    /\ examined = LineIndex(S, a)

\* the first LINE_CAP lines
WithinCap(kinds) == {a \in DOMAIN kinds : LineIndex(DOMAIN kinds, a) <= LINE_CAP}

\* C1: forward() is called only after the gate accepted, the body was read,
\* the scanner produced a descriptor whose project id is in the project
\* allow-list and whose host is an entry of the host allow-list; the stages
\* run in pipeline order, and after a failure no later stage runs and
\* nothing is sent.
C1_ForwardOnlyAfterAllStages ==
    /\ \E k \in 0..Len(Pipeline) :
         \/ stages = SubSeq(Pipeline, 1, k)
         \/ stages = Append(SubSeq(Pipeline, 1, k), "respond")
    /\ (Ran("forward") \/ pc = "forward") =>
         /\ LengthAcceptable(headers.content_length)
         /\ body_reads = 1 /\ original_body = reqBody
         /\ envelope.some
         /\ envelope.v.dsn.project_id \in config.project_ids
         /\ envelope.v.dsn.host \in Range(config.remote_hosts)
         /\ err = ""
    /\ (outbound # <<>> \/ request.some) => Ran("forward")
    /\ err # "" =>
         /\ outbound = <<>> /\ ~request.some /\ fwd_result = "NotCalled"
         /\ \/ stages = SubSeq(Pipeline, 1, FailedStage(err))
            \/ stages = Append(SubSeq(Pipeline, 1, FailedStage(err)), "respond")

C1_Witness ==
    /\ pc = "done" /\ fwd_result = "Ok" /\ Len(outbound) = 1
    /\ stages = Pipeline

\* C2: the gate accepts exactly the requests whose Content-Length is present,
\* an unsigned integer and at most 10,000,000; every other request gets the
\* matching error and its body is never read.
C2_GateAcceptsIffLengthOk ==
    Ran("gate") =>
      /\ LengthAcceptable(headers.content_length) <=> FailedStage(err) # 1
      /\ ~LengthAcceptable(headers.content_length) =>
           /\ err = ExpectedGateError(headers.content_length)
           /\ body_reads = 0 /\ ~Ran("read")
           /\ original_body = <<>> /\ full_body = <<>>
      /\ headers.content_length = Some(<<49,48,48,48,48,48,48,48>>) => pc # "respond" \/ FailedStage(err) # 1
      /\ headers.content_length = Some(<<49,48,48,48,48,48,48,49>>) => err = "ContentIsTooBig"

C2_Witness ==
    /\ pc = "done"
    /\ headers.content_length = Some(<<49,48,48,48,48,48,48,49>>)
    /\ err = "ContentIsTooBig" /\ body_reads = 0
    /\ Len(responses) = 1 /\ responses[1].status = 400

\* C3: the body of every outbound request equals the inbound raw body, byte
\* for byte, also when the inbound body is not entirely valid text.
C3_ForwardedBodyIsInbound ==
    /\ request.some => request.v.body = reqBody
    /\ \A i \in 1..Len(outbound) : outbound[i].body = reqBody

C3_Witness ==
    /\ Len(outbound) = 1 /\ fwd_result = "Ok"
    /\ ~envelope.v.is_safe /\ max_length < Len(reqBody)
    /\ outbound[1].body = reqBody

\* C4 as stated: whenever a line among the first 50 lines of the text prefix
\* holds a valid descriptor, the scanner returns the descriptor of the first
\* such line, whatever the other lines hold.
C4_Original ==
    JustRan("scan") =>
      \A kinds \in {LineKinds(body_content)} : \A a \in DOMAIN kinds :
        FirstValid(kinds, a, {"badjson", "nokey", "nonstring", "baddsn"})
          => ReturnsLine(body_content, DOMAIN kinds, a)

\* C4 amended: whenever a line among the first 50 lines of the text prefix
\* holds a valid descriptor and every line before it is JSON without a "dsn"
\* key, the scanner returns that line's descriptor and has examined no line
\* after it, whatever follows the line (invalid bytes included).
C4_FirstDescriptorWins ==
    JustRan("scan") =>
      \A kinds \in {LineKinds(body_content)} : \A a \in DOMAIN kinds :
        FirstValid(kinds, a, {"nokey"})
          => ReturnsLine(body_content, DOMAIN kinds, a)

\* the second of three lines holds the descriptor returned, the third holds
\* another one, and invalid bytes follow
C4_Witness ==
    /\ JustRan("scan") /\ envelope.some
    /\ ~is_safe /\ max_length < Len(reqBody)
    /\ examined = 2 /\ LinesCount(body_content) = 3
    /\ envelope.v.dsn.host = HostH
    /\ \E a \in LineStarts(body_content) :
         /\ LineIndex(LineStarts(body_content), a) = 3
         /\ LineKind(LineAt(body_content, a)) = "valid"
         /\ DsnOfLine(LineAt(body_content, a)).host = HostG

\* C5: the scanner parses at most 50 lines; when none of the first 50 lines
\* holds a "dsn" key the scan fails, also when line 51 holds a valid one;
\* of 50 or more lines of `{}` exactly 50 are parsed.
C5_ScanStopsAtCap ==
    JustRan("scan") =>
      /\ examined <= LINE_CAP
      /\ \A kinds \in {LineKinds(body_content)} :
           /\ (\A a \in WithinCap(kinds) : kinds[a] \in {"nokey", "badjson"})
                => ~envelope.some /\ err # "" /\ pc = "respond"
           /\ ( /\ Cardinality(DOMAIN kinds) >= LINE_CAP
                /\ \A a \in DOMAIN kinds : LineAt(body_content, a) = EmptyObjLine )
                => examined = LINE_CAP /\ err # ""

\* 50 lines of `{}`, then a valid descriptor on line 51
C5_Witness ==
    /\ JustRan("scan") /\ ~envelope.some /\ examined = LINE_CAP
    /\ \A kinds \in {LineKinds(body_content)} :
         /\ \A a \in WithinCap(kinds) : LineAt(body_content, a) = EmptyObjLine
         /\ \E a \in DOMAIN kinds :
              LineIndex(DOMAIN kinds, a) = LINE_CAP + 1 /\ kinds[a] = "valid"

\* the loop ran its 50 iterations and no line held a "dsn" key
CapReachedWithoutKey ==
    /\ JustRan("scan")
    /\ examined = LINE_CAP
    /\ \A kinds \in {LineKinds(body_content)} :
         /\ Cardinality(DOMAIN kinds) >= LINE_CAP
         /\ \A a \in WithinCap(kinds) : kinds[a] = "nokey"

\* C6 as stated: reaching the cap without the key fails with
\* InvalidNumberOfLines.
C6_Original == CapReachedWithoutKey => err = "InvalidNumberOfLines"

\* C6 amended: reaching the cap without the key fails with
\* MissingDsnKeyInHeader, the error of any scan that ends without the key;
\* no request fails with InvalidNumberOfLines.
C6_CapReachedIsMissingKey ==
    /\ CapReachedWithoutKey => err = "MissingDsnKeyInHeader"
    /\ err # "InvalidNumberOfLines"

C6_Witness ==
    /\ CapReachedWithoutKey
    /\ err = "MissingDsnKeyInHeader"
    /\ LinesCount(body_content) = MaxLines

\* C7: a request ends with exactly one response: 200 with an empty body iff
\* the forward succeeded, 500 with a plain-text reason iff the forward was
\* attempted and failed, 400 with the plain-text reason for every gate,
\* parse and policy error; nothing is sent twice and every unfinished
\* request can take its next step.
C7_OneResponsePerRequest ==
    /\ Len(responses) <= 1 /\ Len(outbound) <= 1
    /\ responses # <<>> <=> pc = "done"
    /\ pc # "done" => pc \in {"gate", "read", "text", "scan", "policy",
                              "forward", "send", "respond"}
    /\ pc = "done" =>
         /\ responses[1].status \in {200, 400, 500}
         /\ responses[1].status = 200 <=> fwd_result = "Ok"
         /\ responses[1].status = 200 => responses[1].body = ""
         /\ responses[1].status = 500 <=> fwd_result = "Err"
         /\ responses[1].status = 500 =>
              responses[1].mime = "text/plain" /\ responses[1].body # ""
         /\ responses[1].status = 400 <=> err # ""
         /\ err # "" =>
              responses[1].mime = "text/plain" /\ responses[1].body = err

C7_Witness ==
    /\ pc = "done" /\ Len(responses) = 1
    /\ responses[1].status = 500 /\ fwd_result = "Err" /\ Len(outbound) = 1

\* C8: the prefix length is at most the buffer's length, is_safe holds iff
\* they are equal, which is iff the whole buffer is valid text; the prefix
\* is valid text and no longer prefix is; the empty buffer gives 0 and
\* true; the computation never fails.
C8_SafeTextView ==
    Ran("text") =>
      /\ max_length <= Len(reqBody)
      /\ is_safe <=> max_length = Len(reqBody)
      /\ is_safe <=> IsEncodedText(reqBody)
      /\ IsEncodedText(SubSeq(reqBody, 1, max_length))
      /\ partial_body = SubSeq(reqBody, 1, max_length)
      /\ max_length < Len(reqBody) =>
           ~IsEncodedText(SubSeq(reqBody, 1, max_length + 1))
      /\ reqBody = <<>> => max_length = 0 /\ is_safe
      /\ err # "FromUtf8Error"

C8_Witness ==
    /\ JustRan("text") /\ pc = "scan"
    /\ Len(reqBody) = 4 /\ max_length = 3 /\ ~is_safe
    /\ reqBody[1] = 224

\* C9: the project check comes before the host check: a descriptor that
\* fails the project check gets InvalidProjectId whether or not its host is
\* allowed; InvalidHost is the error only when the project id is allowed
\* and the host is in no entry of the host list.
C9_ProjectCheckFirst ==
    Ran("policy") =>
      /\ ~project_id_is_allowed(config, envelope.v.dsn.project_id)
           => err = "InvalidProjectId"
      /\ err = "InvalidHost" <=>
           /\ project_id_is_allowed(config, envelope.v.dsn.project_id)
           /\ envelope.v.dsn.host \notin Range(config.remote_hosts)

C9_Witness ==
    /\ pc = "done" /\ Ran("policy")
    /\ envelope.v.dsn.project_id \notin config.project_ids
    /\ envelope.v.dsn.host \notin Range(config.remote_hosts)
    /\ responses[1].status = 400 /\ responses[1].body = "InvalidProjectId"

\* C10: forward never panics: every envelope handed to forward has is_safe
\* set only when its raw body is entirely valid text, so the unwrap() of the
\* text conversion is never reached with invalid bytes, and a request that
\* reaches forward gets its request built and its debug record written.
C10_ForwardNeverPanics ==
    /\ ~panicked /\ pc # "panic"
    /\ (pc = "forward" \/ Ran("forward")) =>
         /\ envelope.v.is_safe => IsEncodedText(envelope.v.raw_body)
         /\ envelope.v.raw_body = reqBody
    /\ (Ran("forward") /\ HeaderValueOk(envelope.v.x_forwarded_for)) =>
         request.some /\ logged # ""

\* the is_safe branch was taken with a body that is not empty
C10_Witness ==
    /\ JustRan("forward") /\ pc = "send"
    /\ envelope.v.is_safe /\ envelope.v.raw_body # <<>>
    /\ request.some /\ request.v.body = reqBody /\ logged = "ByteCountSafe"

====
